---- MODULE Spec2Model ----
(***************************************************************************)
(* Model of sensor.py (JsonApiSensor): one sensor instance, its            *)
(* construction (__init__) and its poll cycle (async_update), followed     *)
(* statement by statement between the two await points.                    *)
(*                                                                         *)
(* Python values are encoded uniformly as records                          *)
(*   [t, n, s, items, members]                                             *)
(* t is the Python type ("null" None, "bool", "num" int, "str", "arr"      *)
(* list, "obj" dict), n the int/bool payload, s the str payload, items the *)
(* list elements, members the dict entries in insertion order as           *)
(* [k, v] records.  Optional configuration strings are <<>> (None) or      *)
(* <<s>>.                                                                  *)
(***************************************************************************)
EXTENDS Integers, Sequences, FiniteSets, TLC

\* ------------------------------------------------------------------ bounds
\* longest JSON array the endpoint returns
MaxLen == 2

\* --------------------------------------------------------- Python values
J(t, n, s, items, members) ==
    [t |-> t, n |-> n, s |-> s, items |-> items, members |-> members]

JNull == J("null", 0, "", <<>>, <<>>)

JBool(b) == J("bool", IF b THEN 1 ELSE 0, "", <<>>, <<>>)

JNum(n) == J("num", n, "", <<>>, <<>>)

JStr(s) == J("str", 0, s, <<>>, <<>>)

JArr(items) == J("arr", 0, "", items, <<>>)

JObj(members) == J("obj", 0, "", <<>>, members)

Member(k, v) == [k |-> k, v |-> v]

\* isinstance(x, list)
IsList(x) == x.t = "arr"

\* isinstance(x, dict)
IsDict(x) == x.t = "obj"

\* k in d
HasKey(d, k) == \E i \in 1..Len(d.members) : d.members[i].k = k

\* d[k]
GetItem(d, k) ==
    d.members[CHOOSE i \in 1..Len(d.members) : d.members[i].k = k].v

\* len(x) of a list
PyLen(x) == JNum(Len(x.items))

Digit(d) ==
    CASE d = 0 -> "0" [] d = 1 -> "1" [] d = 2 -> "2" [] d = 3 -> "3"
      [] d = 4 -> "4" [] d = 5 -> "5" [] d = 6 -> "6" [] d = 7 -> "7"
      [] d = 8 -> "8" [] d = 9 -> "9"

RECURSIVE IntToStr(_)
IntToStr(n) ==
    IF n < 0 THEN "-" \o IntToStr(-n)
    ELSE IF n < 10 THEN Digit(n)
    ELSE IntToStr(n \div 10) \o Digit(n % 10)

\* str(x) of a value that is neither list nor dict
PyStr(x) ==
    CASE x.t = "null" -> JStr("None")
      [] x.t = "bool" -> JStr(IF x.n = 1 THEN "True" ELSE "False")
      [] x.t = "num"  -> JStr(IntToStr(x.n))
      [] x.t = "str"  -> x

\* truthiness of an optional configuration string (None or a str)
Truthy(opt) == opt # <<>> /\ opt[1] # ""

\* ------------------------------------ bodies the endpoint may answer with
Item(i) ==
    CASE i % 3 = 1 -> JStr("a")
      [] i % 3 = 2 -> JNum(0)
      [] OTHER     -> JNull

Scalars == {JNull, JBool(TRUE), JBool(FALSE), JNum(0), JNum(17), JStr("hello")}

Arrays == {JArr([i \in 1..n |-> Item(i)]) : n \in 0..MaxLen}

KeyOrder == <<"count", "total", "region">>

KeyValue(k) ==
    CASE k = "count" -> JNum(0)
      [] k = "total" -> JNum(17)
      [] OTHER       -> JStr("eu")

RECURSIVE MembersOf(_, _)
MembersOf(S, i) ==
    IF i > Len(KeyOrder) THEN <<>>
    ELSE (IF KeyOrder[i] \in S
          THEN <<Member(KeyOrder[i], KeyValue(KeyOrder[i]))>>
          ELSE <<>>) \o MembersOf(S, i + 1)

PlainObjects == {JObj(MembersOf(S, 1)) : S \in SUBSET {"count", "total", "region"}}

OddObjects ==
    { JObj(<<Member("count", JNull), Member("total", JNum(17))>>),
      JObj(<<Member("count", JArr(<<JStr("a")>>))>>),
      JObj(<<Member("count", JBool(TRUE))>>),
      JObj(<<Member("total", JObj(<<Member("region", JStr("eu"))>>))>>) }

Objects == PlainObjects \cup OddObjects

JsonValues == Scalars \cup Arrays \cup Objects

\* ------------------------------------------------------- configuration
NoHeaders == [h \in {} |-> ""]

HeaderConfigs ==
    { NoHeaders,
      [h \in {"Authorization"} |-> "foo"],
      [h \in {"X-Api-Key", "Authorization"} |-> IF h = "Authorization" THEN "foo" ELSE "k"] }

AuthConfigs == {<<>>, <<"">>, <<"Bearer xyz">>}

TemplateConfigs == {<<>>, <<"">>, <<"{{ value_json | tojson }}">>}

\* d[k] = v on a str -> str dict
SetHeader(d, k, v) ==
    [h \in (DOMAIN d) \cup {k} |-> IF h = k THEN v ELSE d[h]]

\* the header dict __init__ leaves in self._headers
InitHeaders(headers, authorization) ==
    IF Truthy(authorization)
    THEN SetHeader(headers, "Authorization", authorization[1])
    ELSE headers

\* ----------------------------------------------------------- the fetch
HTTP_OK == 200

Statuses == {200, 204, 404, 500}

\* aiohttp.ClientError and its subclasses
ClientErrors == {"ClientConnectorError", "ContentTypeError"}

\* every exception the two awaits raise
Exceptions == ClientErrors \cup {"JSONDecodeError", "TimeoutError"}


\* ExceptClause without the trailing "except Exception" clause
ExceptClause_NoGeneric(exc) ==
    IF exc \in ClientErrors THEN "client" ELSE "propagate"

\* which except clause of async_update takes an exception
ExceptClause(exc) ==
    IF exc \in ClientErrors THEN "client"
    ELSE IF exc \in Exceptions THEN "generic"
    ELSE "propagate"

\* the outcomes of rendering the template and parsing its text back
RenderOutcomes ==
    {[kind |-> "raise", value |-> JNull], [kind |-> "badjson", value |-> JNull]}
    \cup {[kind |-> "ok", value |-> v] : v \in JsonValues}

\* ------------------------------------- the three normalization copies

\* TplState without the str() of the scalar branch
TplState_RawScalar(processed_data) ==
    IF IsList(processed_data) THEN PyLen(processed_data)
    ELSE IF IsDict(processed_data) THEN
        IF HasKey(processed_data, "count") THEN GetItem(processed_data, "count")
        ELSE IF HasKey(processed_data, "total") THEN GetItem(processed_data, "total")
        ELSE JStr("OK")
    ELSE processed_data

TplState(processed_data) ==
    IF IsList(processed_data) THEN PyLen(processed_data)
    ELSE IF IsDict(processed_data) THEN
        IF HasKey(processed_data, "count") THEN GetItem(processed_data, "count")
        ELSE IF HasKey(processed_data, "total") THEN GetItem(processed_data, "total")
        ELSE JStr("OK")
    ELSE PyStr(processed_data)

TplAttributes(processed_data) ==
    IF IsList(processed_data) THEN JObj(<<Member("items", processed_data)>>)
    ELSE IF IsDict(processed_data) THEN processed_data
    ELSE JObj(<<Member("raw", processed_data)>>)


\* FallbackState with the two key tests in the other order
FallbackState_TotalFirst(d) ==
    IF IsList(d) THEN PyLen(d)
    ELSE IF IsDict(d) THEN
        IF HasKey(d, "total") THEN GetItem(d, "total")
        ELSE IF HasKey(d, "count") THEN GetItem(d, "count")
        ELSE JStr("OK")
    ELSE PyStr(d)

FallbackState(d) ==
    IF IsList(d) THEN PyLen(d)
    ELSE IF IsDict(d) THEN
        IF HasKey(d, "count") THEN GetItem(d, "count")
        ELSE IF HasKey(d, "total") THEN GetItem(d, "total")
        ELSE JStr("OK")
    ELSE PyStr(d)

FallbackAttributes(d) ==
    IF IsList(d) THEN JObj(<<Member("items", d)>>)
    ELSE IF IsDict(d) THEN d
    ELSE JObj(<<Member("raw", d)>>)


\* bool(x) is False
Falsy(x) ==
    x \in {JNull, JBool(FALSE), JNum(0), JStr(""), JArr(<<>>), JObj(<<>>)}

\* DefaultState testing data.get("count") instead of "count" in data
DefaultState_Truthiness(d) ==
    IF IsList(d) THEN PyLen(d)
    ELSE IF IsDict(d) THEN
        IF HasKey(d, "count") /\ ~Falsy(GetItem(d, "count")) THEN GetItem(d, "count")
        ELSE IF HasKey(d, "total") /\ ~Falsy(GetItem(d, "total")) THEN GetItem(d, "total")
        ELSE JStr("OK")
    ELSE PyStr(d)

DefaultState(d) ==
    IF IsList(d) THEN PyLen(d)
    ELSE IF IsDict(d) THEN
        IF HasKey(d, "count") THEN GetItem(d, "count")
        ELSE IF HasKey(d, "total") THEN GetItem(d, "total")
        ELSE JStr("OK")
    ELSE PyStr(d)

DefaultAttributes(d) ==
    IF IsList(d) THEN JObj(<<Member("items", d)>>)
    ELSE IF IsDict(d) THEN d
    ELSE JObj(<<Member("raw", d)>>)

\* ------------------------------------------------------------- state
VARIABLES
    headers,              \* the headers argument of __init__
    authorization,        \* self._authorization
    attributes_template,  \* self._attributes_template
    _headers,             \* self._headers
    _state,               \* self._state
    _attributes,          \* self._attributes
    _available,           \* self._available
    pc,                   \* position of async_update
    data,                 \* local data, <<>> while unbound
    processed_data,       \* local processed_data, <<>> while unbound
    site,                 \* the normalization copy being executed
    escaped,              \* an exception left async_update
    sent,                 \* headers of the GET of the current/last cycle
    pre,                  \* the observable record when the cycle started
    outcome,              \* how the fetch of the last completed cycle ended
    rendered,             \* how the render step of the cycle ended
    fetched,              \* body the fetch of the cycle returned, <<>> if none
    normIn,               \* value the last successful cycle normalized
    snapshot              \* record a host read returned since the cycle started

vars == <<headers, authorization, attributes_template, _headers, _state,
          _attributes, _available, pc, data, processed_data, site, escaped,
          sent, pre, outcome, rendered, fetched, normIn, snapshot>>

config == <<headers, authorization, attributes_template, _headers>>

\* what the host reads through state, extra_state_attributes, available
Observable ==
    [state |-> _state, attributes |-> _attributes, available |-> _available]


\* YieldPoints with an await between the two writes
YieldPoints_MidWrite == {"Idle", "AwaitGet", "AwaitJson", "WriteAttributes"}

\* the positions at which async_update is suspended (or not running)
YieldPoints == {"Idle", "AwaitGet", "AwaitJson"}

\* the sensor as __init__ leaves it
Constructed ==
    /\ _headers = InitHeaders(headers, authorization)
    /\ _state = JNull
    /\ _attributes = JObj(<<>>)
    /\ _available = TRUE
    /\ pc = "Idle"
    /\ data = <<>>
    /\ processed_data = <<>>
    /\ site = "none"
    /\ escaped = FALSE
    /\ sent = <<>>
    /\ pre = [state |-> JNull, attributes |-> JObj(<<>>), available |-> TRUE]
    /\ outcome = "none"
    /\ rendered = "none"
    /\ fetched = <<>>
    /\ normIn = <<>>
    /\ snapshot = <<>>

\* one header configuration, every template configuration
Init ==
    /\ headers = [h \in {"Authorization"} |-> "foo"]
    /\ authorization = <<"Bearer xyz">>
    /\ attributes_template \in TemplateConfigs
    /\ Constructed

\* every header and authorization configuration, no template
HeaderInit ==
    /\ headers \in HeaderConfigs
    /\ authorization \in AuthConfigs
    /\ attributes_template = <<>>
    /\ Constructed

\* the host scheduler calls async_update; the GET is issued
StartPoll ==
    /\ pc = "Idle"
    /\ pc' = "AwaitGet"
    /\ sent' = <<_headers>>
    /\ pre' = Observable
    /\ escaped' = FALSE
    /\ rendered' = "none"
    /\ fetched' = <<>>
    /\ snapshot' = <<>>
    /\ UNCHANGED <<config, _state, _attributes, _available, data,
                   processed_data, site, outcome, normIn>>

\* an exception raised inside the try block reaches the except clauses
Raise(exc, why) ==
    /\ pc' = "Idle"
    /\ data' = <<>>
    /\ processed_data' = <<>>
    /\ site' = "none"
    /\ outcome' = why
    /\ IF ExceptClause(exc) = "propagate"
       THEN escaped' = TRUE /\ UNCHANGED _available
       ELSE escaped' = FALSE /\ _available' = FALSE
    /\ UNCHANGED <<config, _state, _attributes, sent, pre, rendered, fetched,
                   normIn, snapshot>>


\* HttpErrorBranch that also resets the state
HttpErrorBranch_ClearsState ==
    /\ _available' = FALSE
    /\ _state' = JNull
    /\ _attributes' = JObj(<<>>)
    /\ pc' = "Idle"
    /\ outcome' = "http"
    /\ UNCHANGED <<config, data, processed_data, site, escaped, sent, pre,
                   rendered, fetched, normIn, snapshot>>

\* the else branch of response.status == 200
HttpErrorBranch ==
    /\ _available' = FALSE
    /\ pc' = "Idle"
    /\ outcome' = "http"
    /\ UNCHANGED <<config, _state, _attributes, data, processed_data, site,
                   escaped, sent, pre, rendered, fetched, normIn, snapshot>>

\* session.get returns a response
GetReturns(status) ==
    /\ pc = "AwaitGet"
    /\ IF status = HTTP_OK
       THEN /\ pc' = "AwaitJson"
            /\ UNCHANGED <<config, _state, _attributes, _available, data,
                           processed_data, site, escaped, sent, pre, outcome,
                           rendered, fetched, normIn, snapshot>>
       ELSE HttpErrorBranch

\* session.get raises
GetRaises(exc) ==
    /\ pc = "AwaitGet"
    /\ exc \in {"ClientConnectorError", "TimeoutError"}
    /\ Raise(exc, IF exc = "TimeoutError" THEN "timeout" ELSE "transport")

\* response.json() returns the parsed body
JsonReturns(body) ==
    /\ pc = "AwaitJson"
    /\ data' = <<body>>
    /\ pc' = "CheckTemplate"
    /\ fetched' = <<body>>
    /\ UNCHANGED <<config, _state, _attributes, _available, processed_data,
                   site, escaped, sent, pre, outcome, rendered, normIn,
                   snapshot>>

\* response.json() raises
JsonRaises(exc) ==
    /\ pc = "AwaitJson"
    /\ exc \in {"ContentTypeError", "JSONDecodeError", "TimeoutError"}
    /\ Raise(exc, IF exc = "TimeoutError" THEN "timeout" ELSE "parse")


\* CheckTemplate without the inner try: a render failure reaches the outer
\* except clause
CheckTemplate_NoInnerTry(r) ==
    /\ pc = "CheckTemplate"
    /\ IF Truthy(attributes_template)
       THEN /\ rendered' = r.kind
            /\ IF r.kind = "ok"
               THEN /\ processed_data' = <<r.value>>
                    /\ site' = "tpl"
                    /\ pc' = "WriteState"
                    /\ UNCHANGED <<data, _available, outcome>>
               ELSE /\ processed_data' = <<>>
                    /\ site' = "none"
                    /\ data' = <<>>
                    /\ pc' = "Idle"
                    /\ _available' = FALSE
                    /\ outcome' = "ok"
       ELSE /\ r.kind = "raise"
            /\ rendered' = "none"
            /\ processed_data' = <<>>
            /\ site' = "default"
            /\ pc' = "WriteState"
            /\ UNCHANGED <<data, _available, outcome>>
    /\ UNCHANGED <<config, _state, _attributes, escaped, sent, pre, fetched,
                   normIn, snapshot>>

\* if self._attributes_template: render and parse, or take the default copy
CheckTemplate(r) ==
    /\ pc = "CheckTemplate"
    /\ IF Truthy(attributes_template)
       THEN /\ rendered' = r.kind
            /\ IF r.kind = "ok"
               THEN processed_data' = <<r.value>> /\ site' = "tpl"
               ELSE processed_data' = <<>> /\ site' = "fallback"
       ELSE /\ r.kind = "raise"
            /\ rendered' = "none"
            /\ processed_data' = <<>>
            /\ site' = "default"
    /\ pc' = "WriteState"
    /\ UNCHANGED <<config, _state, _attributes, _available, data, escaped,
                   sent, pre, outcome, fetched, normIn, snapshot>>

\* the value the executing copy normalizes
Subject == IF site = "tpl" THEN processed_data[1] ELSE data[1]

\* self._state = ... of the executing copy
WriteState ==
    /\ pc = "WriteState"
    /\ _state' = CASE site = "tpl"      -> TplState(Subject)
                   [] site = "fallback" -> FallbackState(Subject)
                   [] site = "default"  -> DefaultState(Subject)
    /\ pc' = "WriteAttributes"
    /\ UNCHANGED <<config, _attributes, _available, data, processed_data,
                   site, escaped, sent, pre, outcome, rendered, fetched,
                   normIn, snapshot>>

\* self._attributes = ... of the executing copy
WriteAttributes ==
    /\ pc = "WriteAttributes"
    /\ _attributes' = CASE site = "tpl"      -> TplAttributes(Subject)
                        [] site = "fallback" -> FallbackAttributes(Subject)
                        [] site = "default"  -> DefaultAttributes(Subject)
    /\ pc' = "SetAvailable"
    /\ UNCHANGED <<config, _state, _available, data, processed_data, site,
                   escaped, sent, pre, outcome, rendered, fetched, normIn,
                   snapshot>>


\* SetAvailable without the assignment to self._available
SetAvailable_NoFlag ==
    /\ pc = "SetAvailable"
    /\ pc' = "Idle"
    /\ outcome' = "ok"
    /\ normIn' = <<Subject>>
    /\ data' = <<>>
    /\ processed_data' = <<>>
    /\ site' = "none"
    /\ UNCHANGED <<config, _state, _attributes, _available, escaped, sent,
                   pre, rendered, fetched, snapshot>>

\* self._available = True; async_update returns
SetAvailable ==
    /\ pc = "SetAvailable"
    /\ _available' = TRUE
    /\ pc' = "Idle"
    /\ outcome' = "ok"
    /\ normIn' = <<Subject>>
    /\ data' = <<>>
    /\ processed_data' = <<>>
    /\ site' = "none"
    /\ UNCHANGED <<config, _state, _attributes, escaped, sent, pre, rendered,
                   fetched, snapshot>>

\* the host reads the three properties while async_update is not running
HostRead ==
    /\ pc \in YieldPoints
    /\ snapshot' = <<Observable>>
    /\ UNCHANGED <<config, _state, _attributes, _available, pc, data,
                   processed_data, site, escaped, sent, pre, outcome,
                   rendered, fetched, normIn>>

\* the steps of a running cycle
CycleStep ==
    \/ \E status \in Statuses : GetReturns(status)
    \/ \E exc \in Exceptions : GetRaises(exc)
    \/ \E body \in JsonValues : JsonReturns(body)
    \/ \E exc \in Exceptions : JsonRaises(exc)
    \/ \E r \in RenderOutcomes : CheckTemplate(r)
    \/ WriteState
    \/ WriteAttributes
    \/ SetAvailable

Next ==
    \/ StartPoll
    \/ CycleStep
    \/ HostRead

Spec == Init /\ [][Next]_vars

HeaderSpec == HeaderInit /\ [][Next]_vars

\* the event loop resumes a runnable coroutine, and each await ends within
\* the timeout
FairSpec == Spec /\ WF_vars(CycleStep)

\* ------------------------------------------------------------ properties
\* the fetch outcomes that are not a success
Failures == {"http", "transport", "parse", "timeout"}

\* the written form the claims give each scalar the endpoint returns
StrOf(x) ==
    CASE x = JNull        -> "None"
      [] x = JBool(TRUE)  -> "True"
      [] x = JBool(FALSE) -> "False"
      [] x = JNum(0)      -> "0"
      [] x = JNum(17)     -> "17"
      [] x = JStr("a")    -> "a"
      [] x = JStr("eu")   -> "eu"
      [] x = JStr("hello") -> "hello"

\* the pair (primary_value, attributes) the claims assign to a JSON value
normalize(x) ==
    IF x.t = "arr" THEN <<JNum(Len(x.items)), JObj(<<Member("items", x)>>)>>
    ELSE IF x.t = "obj" THEN
        <<IF HasKey(x, "count") THEN GetItem(x, "count")
          ELSE IF HasKey(x, "total") THEN GetItem(x, "total")
          ELSE JStr("OK"), x>>
    ELSE <<JStr(StrOf(x)), JObj(<<Member("raw", x)>>)>>

\* a cycle has just completed with the given fetch outcomes
Ended(outcomes) == pc = "Idle" /\ outcome \in outcomes

\* C1: a poll cycle whose fetch fails (non-200 status, transport error,
\* body parse error, timeout) ends unavailable with primary_value and
\* attributes equal to their values before the cycle started.
C1_FailedPollKeepsState ==
    Ended(Failures) =>
        /\ _available = FALSE
        /\ _state = pre.state
        /\ _attributes = pre.attributes
        /\ _headers = InitHeaders(headers, authorization)

C1_Witness ==
    /\ Ended({"http"})
    /\ pre.available = TRUE
    /\ pre.state = JNum(17)
    /\ _state = JNum(17)
    /\ _available = FALSE

\* C2: with a template configured and a successful fetch of V, a render
\* that raises or yields invalid JSON ends the cycle available, with
\* (primary_value, attributes) = normalize(V) of the unrendered V.
C2_RenderFallback ==
    (Ended({"ok", "http", "transport", "parse", "timeout"})
        /\ rendered \in {"raise", "badjson"}) =>
        /\ outcome = "ok"
        /\ _available = TRUE
        /\ <<_state, _attributes>> = normalize(fetched[1])

C2_Witness ==
    /\ Ended({"ok"})
    /\ rendered = "badjson"
    /\ Truthy(attributes_template)
    /\ fetched = <<JObj(<<Member("total", JNum(17)), Member("region", JStr("eu"))>>)>>
    /\ _state = JNum(17)
    /\ pre.state # JNum(17)

\* C3: for a JSON object O the normalization gives O["count"] if the key
\* count is present, else O["total"] if the key total is present, else
\* "OK"; presence decides, not truthiness; attributes are O unchanged.
C3_ObjectPrecedence ==
    (Ended({"ok"}) /\ normIn[1].t = "obj") =>
        LET O == normIn[1] IN
        /\ HasKey(O, "count") => _state = GetItem(O, "count")
        /\ (~HasKey(O, "count") /\ HasKey(O, "total")) => _state = GetItem(O, "total")
        /\ (~HasKey(O, "count") /\ ~HasKey(O, "total")) => _state = JStr("OK")
        /\ _attributes = O

C3_Witness ==
    /\ Ended({"ok"})
    /\ normIn = <<JObj(<<Member("count", JNull), Member("total", JNum(17))>>)>>
    /\ _state = JNull

\* C4: for an array A the normalization gives (len(A), {"items": A}), the
\* empty array included; for a scalar s it gives (str(s), {"raw": s}).
C4_ArrayAndScalar ==
    (Ended({"ok"}) /\ normIn[1].t # "obj") =>
        LET X == normIn[1] IN
        IF X.t = "arr"
        THEN /\ _state = JNum(Len(X.items))
             /\ _attributes = JObj(<<Member("items", X)>>)
        ELSE /\ _state = JStr(StrOf(X))
             /\ _attributes = JObj(<<Member("raw", X)>>)
             /\ Len(_attributes.members) = 1

C4_Witness ==
    /\ Ended({"ok"})
    /\ normIn = <<JNum(17)>>
    /\ _state = JStr("17")
    /\ pre.attributes = JObj(<<Member("items", JArr(<<>>))>>)
    /\ pre.state = JNum(0)

\* C5: the headers of every GET are the configured mapping H with
\* Authorization = a added (replacing an entry of that name) for every
\* configured authorization value a, and exactly H when none is configured.
C5_HeadersSent ==
    sent # <<>> =>
        sent[1] = IF authorization # <<>>
                  THEN SetHeader(headers, "Authorization", authorization[1])
                  ELSE headers

\* C6: every poll cycle that is started completes and returns the sensor
\* to Idle without an exception reaching the host, whatever the fetch and
\* render outcomes.
C6_PollCompletes == (pc # "Idle") ~> (pc = "Idle" /\ ~escaped)

C6_Witness ==
    /\ Ended({"timeout"})
    /\ ~escaped
    /\ pre.available = TRUE

\* C7: after any sequence of poll cycles primary_value is a string, a
\* number or null, and attributes is a string-keyed mapping.
C7_StateIsScalar ==
    pc = "Idle" =>
        /\ _state.t \in {"null", "num", "str"}
        /\ _attributes.t = "obj"

\* C8: a host read made while the cycle is suspended returns either the
\* complete record from before the cycle or the complete record after it.
C8_ReadsSeeWholeRecord ==
    snapshot # <<>> =>
        \/ snapshot[1] = pre
        \/ pc = "Idle" /\ snapshot[1] = Observable

C8_Witness ==
    /\ pc = "AwaitJson"
    /\ snapshot = <<pre>>
    /\ pre.state = JNum(17)

\* C9: after completed cycles, available holds exactly when no cycle has
\* completed or the last one fetched successfully, and (primary_value,
\* attributes) are the normalization of the last successful cycle's input,
\* or (null, empty) if there was none.
C9_LastSuccessWins ==
    pc = "Idle" =>
        /\ _available = (outcome \in {"none", "ok"})
        /\ <<_state, _attributes>> =
              IF normIn = <<>> THEN <<JNull, JObj(<<>>)>> ELSE normalize(normIn[1])

C9_Witness ==
    /\ Ended({"ok"})
    /\ pre.available = FALSE
    /\ pre.state = JNum(17)
    /\ _state = JStr("OK")
    /\ _available = TRUE

\* C10: the three copies of the normalization compute the same function,
\* so a cycle ends in the state any of the three copies would have given.
C10_CopiesAgree ==
    Ended({"ok"}) =>
        LET X == normIn[1] IN
        /\ <<_state, _attributes>> = <<TplState(X), TplAttributes(X)>>
        /\ <<_state, _attributes>> = <<FallbackState(X), FallbackAttributes(X)>>
        /\ <<_state, _attributes>> = <<DefaultState(X), DefaultAttributes(X)>>

C10_Witness ==
    /\ Ended({"ok"})
    /\ rendered = "ok"
    /\ fetched = normIn
    /\ normIn = <<JObj(<<Member("count", JNum(0)), Member("total", JNum(17))>>)>>
====
